---- MODULE Spec2Model ----
(***************************************************************************)
(* The SquinkSplash game contract (src/game/lib.rs) as a state machine.    *)
(*                                                                         *)
(* Storage of the contract: the root struct (state, dimensions, buy_in,    *)
(* rounds, opener) is loaded when a message starts and written back when   *)
(* it returns successfully; the Lazy cells (players, last_turn) and the    *)
(* Mapping (board) are written at the moment of set / insert / remove.     *)
(* A message that returns Err is reverted as a whole.                      *)
(*                                                                         *)
(* submit_turn calls every player contract of the active batch with        *)
(* reentrancy allowed.  The handler is therefore split at these calls:     *)
(* `stack` holds the suspended submit_turn frames, and while it is not     *)
(* empty the invoked player may call any message of the game before it     *)
(* returns.                                                                *)
(***************************************************************************)
EXTENDS Integers, Sequences, FiniteSets, TLC

VARIABLES
    state,        \* storage: game phase                       (lib.rs:36)
    board,        \* storage: Mapping<u32, FieldEntry>         (lib.rs:38)
    dimensions,   \* storage: width and height                 (lib.rs:40)
    players,      \* storage: Lazy<Vec<Player>>                (lib.rs:42)
    buy_in,       \* storage: stake per player                 (lib.rs:44)
    rounds,       \* storage: rounds of one game               (lib.rs:46)
    last_turn,    \* storage: Lazy<u32>, {} while unset        (lib.rs:48)
    opener,       \* storage: account allowed to start         (lib.rs:50)
    balance,      \* balance the chain holds for the contract
    terminated,   \* the contract was removed by terminate_contract
    block,        \* env().block_number()
    stack,        \* suspended submit_turn calls, innermost last
    events,       \* events emitted by the transaction in progress / last one
    last,         \* the message dispatched by the latest step and its result
    invoked,      \* the player call that returned in the latest step
    since_start   \* {} before start_game; then {n}, n the number of end_game
                  \* calls accepted since start_game (2 stands for 2 or more)

vars == <<state, board, dimensions, players, buy_in, rounds, last_turn, opener,
          balance, terminated, block, stack, events, last, invoked, since_start>>

config == <<dimensions, buy_in, rounds, opener>>

-----------------------------------------------------------------------------
(* Bounds of the exploration *)

MaxBlock == 4
MaxDepth == 2
\* u32 is narrowed to this maximum so that index overflow stays reachable
U32_MAX == 15

Accounts == 1..2
Names == {"al", "bob", "eve", "seventeen_letters"}
Values == {0, 1}
\* constructor arguments explored: a game with stakes whose players get a
\* gas budget (rounds >= 4), and a short free game that starts late
Constructions ==
    {[dimensions |-> [x |-> 1, y |-> 2], buy_in |-> 1, forming_rounds |-> 0,
      rounds |-> 4, caller |-> 1],
     [dimensions |-> [x |-> 1, y |-> 2], buy_in |-> 0, forming_rounds |-> 1,
      rounds |-> 1, caller |-> 1]}

-----------------------------------------------------------------------------
(* Program constants (src/common/src/lib.rs) *)

PLAYER_LIMIT == 80
\* 250_000_000_000 gas, counted here in units of 10^9
GAS_LIMIT_ALL_PLAYERS == 250
\* variant: names of two characters are allowed
ALLOWED_NAME_SIZES_from_2 == 2..16

ALLOWED_NAME_SIZES == 3..16

-----------------------------------------------------------------------------
(* Data (src/common/src/structs.rs) *)

Forming(e) == [tag |-> "Forming", earliest_start |-> e]
Running(r) == [tag |-> "Running", rounds_played |-> r]
Finished(w) == [tag |-> "Finished", winner |-> w]

Player(id, name) == [id |-> id, name |-> name, gas_used |-> 0, score |-> 0]
FieldEntry(owner, round) == [owner |-> owner, claimed_at |-> round]

Success(t) == [kind |-> "Success", turn |-> t]
OutOfBounds(t) == [kind |-> "OutOfBounds", turn |-> t]
Occupied(t, p) == [kind |-> "Occupied", turn |-> t, player |-> p]
BrokenPlayer == [kind |-> "BrokenPlayer"]
NoTurn == [kind |-> "NoTurn"]
BudgetExhausted == [kind |-> "BudgetExhausted"]

PlayerRegistered(p) == [event |-> "PlayerRegistered", player |-> p]
\* variant: the event carries the index of the round that was played
RoundIncremented_index(n) == [event |-> "RoundIncremented", rounds_played |-> n - 1]

RoundIncremented(n) == [event |-> "RoundIncremented", rounds_played |-> n]
GameStarted(a) == [event |-> "GameStarted", starter |-> a]
TurnTaken(p, o) == [event |-> "TurnTaken", player |-> p, outcome |-> o]
GameEnded(a) == [event |-> "GameEnded", ender |-> a]
GameDestroyed(w) == [event |-> "GameDestroyed", winner |-> w]

\* u32 arithmetic
saturating_add(a, b) == IF a + b > U32_MAX THEN U32_MAX ELSE a + b
saturating_mul(a, b) == IF a * b > U32_MAX THEN U32_MAX ELSE a * b
\* checked results are {} for None and {v} for Some(v)
checked_mul(a, b) == IF a * b > U32_MAX THEN {} ELSE {a * b}
checked_add(a, b) == IF a + b > U32_MAX THEN {} ELSE {a + b}
\* u64 saturating_sub
saturating_sub(a, b) == IF a > b THEN a - b ELSE 0

FieldLen(d) == saturating_mul(d.x, d.y)

\* variant: the used gas is left out of the key
scoring_less_by_score(p, q) == p.score > q.score

\* Player::scoring_order: (Reverse(score), gas_used), compared lexicographically
scoring_less(p, q) ==
    \/ p.score > q.score
    \/ p.score = q.score /\ p.gas_used < q.gas_used

-----------------------------------------------------------------------------
(* Private helpers of the contract *)

\* variant: the second batch starts with the 30th player
calc_num_batches_ge(num_players) == IF num_players >= 30 THEN 2 ELSE 1

calc_num_batches(num_players) == IF num_players > 30 THEN 2 ELSE 1

calc_gas_limit(num_players) ==
    IF num_players = 0 THEN 0
    ELSE (GAS_LIMIT_ALL_PLAYERS * calc_num_batches(num_players)) \div num_players

\* variant: a started quarter of the rounds counts as a whole one
calc_gas_budget_rounded_up(gas_limit, num_rounds) ==
    gas_limit * ((num_rounds + 3) \div 4)

\* variant: the budget is spread over an eighth of the rounds
calc_gas_budget_eighth(gas_limit, num_rounds) == gas_limit * (num_rounds \div 8)

calc_gas_budget(gas_limit, num_rounds) == gas_limit * (num_rounds \div 4)

idx(coord) ==
    LET m == checked_mul(coord.y, dimensions.x)
    IN  IF m = {} THEN {} ELSE checked_add(CHOOSE v \in m : TRUE, coord.x)

is_valid_coord(coord) ==
    IF idx(coord) = {} THEN FALSE
    ELSE (CHOOSE v \in idx(coord) : TRUE) < FieldLen(dimensions)

\* slice::binary_search_by_key over the 0-based range [lo, hi)
RECURSIVE binary_search(_, _, _, _)
binary_search(id, ps, lo, hi) ==
    IF lo >= hi THEN [found |-> FALSE, idx |-> lo]
    ELSE LET mid == lo + ((hi - lo) \div 2)
         IN  IF ps[mid + 1].id = id THEN [found |-> TRUE, idx |-> mid]
             ELSE IF ps[mid + 1].id < id THEN binary_search(id, ps, mid + 1, hi)
             ELSE binary_search(id, ps, lo, mid)

\* variant: only the first player is compared
find_player_first(id, ps) ==
    IF ps # <<>> /\ ps[1].id = id THEN [found |-> TRUE, idx |-> 0]
    ELSE [found |-> FALSE, idx |-> Len(ps)]

find_player(id, ps) == binary_search(id, ps, 0, Len(ps))

\* variant: the new player takes the place of the player at the position
insert_replacing(ps, i, p) == SubSeq(ps, 1, i) \o <<p>> \o SubSeq(ps, i + 2, Len(ps))

\* variant: the new player is pushed to the end
insert_last(ps, i, p) == Append(ps, p)

\* Vec::insert at a 0-based position
insert(ps, i, p) == SubSeq(ps, 1, i) \o <<p>> \o SubSeq(ps, i + 1, Len(ps))

\* Iterator::min_by_key returns the first of the minimal elements
RECURSIVE min_by_key(_, _, _)
min_by_key(ps, i, best) ==
    IF i > Len(ps) THEN best
    ELSE min_by_key(ps, i + 1, IF scoring_less(ps[i], ps[best]) THEN i ELSE best)

-----------------------------------------------------------------------------
(* The storage a message works on, and the result it returns *)

Storage == [state |-> state, board |-> board, players |-> players,
            last_turn |-> last_turn, balance |-> balance,
            terminated |-> terminated]

Ok(s, evs) == [res |-> "Ok", s |-> s, events |-> evs]
Err(s, e) == [res |-> e, s |-> s, events |-> <<>>]

\* variant: a game that has played all its rounds still counts as running
is_running_le(s) ==
    IF s.state.tag = "Running" THEN s.state.rounds_played <= rounds ELSE FALSE

is_running(s) ==
    IF s.state.tag = "Running" THEN s.state.rounds_played < rounds ELSE FALSE

\* variant: the effects of a message are kept when it returns Err
ink_message_kept(s, r) == r.s

\* a message returning Err is reverted: storage and transferred value
ink_message(s, r) == IF r.res = "Ok" THEN r.s ELSE s

-----------------------------------------------------------------------------
(* Messages that return without calling out.  Each yields the result and   *)
(* the storage as the code leaves it at the point of return.               *)

\* variant: any account may remove a finished game
destroy_by_anyone(s, caller) ==
    IF s.state.tag = "Finished"
    THEN LET f == find_player(s.state.winner, s.players)
         IN  IF ~f.found THEN Err(s, "TheWinnerIsNotAPlayer")
             ELSE Ok([s EXCEPT !.terminated = TRUE, !.balance = 0,
                               !.board = <<>>, !.players = <<>>,
                               !.last_turn = {}],
                     <<GameDestroyed(s.players[f.idx + 1])>>)
    ELSE Err(s, "OnlyFinishedGamesCanBeDestroyed")

destroy(s, caller) ==
    IF s.state.tag = "Finished"
    THEN IF s.state.winner # caller
         THEN Err(s, "OnlyWinnerIsAllowedToDestroyTheContract")
         ELSE LET f == find_player(s.state.winner, s.players)
              IN  IF ~f.found THEN Err(s, "TheWinnerIsNotAPlayer")
                  ELSE \* terminate_contract: storage removed, funds to the winner
                       Ok([s EXCEPT !.terminated = TRUE, !.balance = 0,
                                    !.board = <<>>, !.players = <<>>,
                                    !.last_turn = {}],
                          <<GameDestroyed(s.players[f.idx + 1])>>)
    ELSE Err(s, "OnlyFinishedGamesCanBeDestroyed")

\* variant: start_game leaves the marker as it is
start_game_unmarked(s, caller) ==
    IF caller # opener THEN Err(s, "OnlyAdminCanStartTheGame")
    ELSE IF s.state.tag # "Forming" THEN Err(s, "GameAlreadyStarted")
    ELSE IF ~(block >= s.state.earliest_start) THEN Err(s, "GameCantBeStartedYet")
    ELSE IF s.players = <<>> THEN Err(s, "YouNeedAtLeastOnePlayer")
    ELSE Ok([s EXCEPT !.state = Running(0)], <<GameStarted(caller)>>)

\* variant: the game can be started before earliest_start
start_game_early(s, caller) ==
    IF caller # opener THEN Err(s, "OnlyAdminCanStartTheGame")
    ELSE IF s.state.tag # "Forming" THEN Err(s, "GameAlreadyStarted")
    ELSE IF s.players = <<>> THEN Err(s, "YouNeedAtLeastOnePlayer")
    ELSE Ok([s EXCEPT !.state = Running(0), !.last_turn = {block}],
            <<GameStarted(caller)>>)

start_game(s, caller) ==
    IF caller # opener THEN Err(s, "OnlyAdminCanStartTheGame")
    ELSE IF s.state.tag # "Forming" THEN Err(s, "GameAlreadyStarted")
    ELSE IF ~(block >= s.state.earliest_start) THEN Err(s, "GameCantBeStartedYet")
    ELSE IF s.players = <<>> THEN Err(s, "YouNeedAtLeastOnePlayer")
    ELSE Ok([s EXCEPT !.state = Running(0), !.last_turn = {block}],
            <<GameStarted(caller)>>)

\* env().transfer: needs the funds, and the ledger may refuse for its own reasons
transfer(s, amount, ledger_ok) == ledger_ok /\ amount <= s.balance

\* variant: the game can be ended while it is running
end_game_unguarded(s, caller, ledger_ok) ==
    IF s.players = <<>>
    THEN Err(s, "WeOnlyAllowStartingTheGameWithAtLeastOnePlayer")
    ELSE LET winner == s.players[min_by_key(s.players, 1, 1)].id
             pot == Len(s.players) * buy_in
         IN  IF ~transfer(s, pot, ledger_ok) THEN Err(s, "InkEnvError")
             ELSE Ok([s EXCEPT !.balance = @ - pot, !.state = Finished(winner)],
                     <<GameEnded(caller)>>)

end_game(s, caller, ledger_ok) ==
    IF is_running(s) THEN Err(s, "GameCantBeEndedOrHasAlreadyEnded")
    ELSE IF s.players = <<>>
         THEN Err(s, "WeOnlyAllowStartingTheGameWithAtLeastOnePlayer")
    ELSE LET winner == s.players[min_by_key(s.players, 1, 1)].id
             pot == Len(s.players) * buy_in
         IN  IF ~transfer(s, pot, ledger_ok) THEN Err(s, "InkEnvError")
             ELSE Ok([s EXCEPT !.balance = @ - pot, !.state = Finished(winner)],
                     <<GameEnded(caller)>>)

\* the fields the loops of reset_game pass over
Fields == {[x |-> cx, y |-> cy] :
              cx \in 0..(dimensions.x - 1), cy \in 0..(dimensions.y - 1)}

\* variant: only the first row of the board is passed over
Cells_of_first_row ==
    {CHOOSE v \in idx(f) : TRUE : f \in {g \in Fields : g.y = 0 /\ idx(g) # {}}}

Cells == {CHOOSE v \in idx(f) : TRUE : f \in {g \in Fields : idx(g) # {}}}

\* variant: the entries of the board are left in place
reset_game_painted(s) ==
    IF s.state.tag = "Finished"
    THEN Ok([s EXCEPT !.state = Forming(block),
                      !.players = <<>>,
                      !.last_turn = {0}],
            <<>>)
    ELSE Err(s, "OnlyFinishedGameCanBeReset")

\* the unwrap of an index that overflows is a panic, which reverts the message
reset_game(s) ==
    IF s.state.tag = "Finished"
    THEN IF \E f \in Fields : idx(f) = {} THEN Err(s, "Panic")
         ELSE Ok([s EXCEPT !.state = Forming(block),
                           !.board = [i \in (DOMAIN s.board) \ Cells |-> s.board[i]],
                           !.players = <<>>,
                           !.last_turn = {0}],
                 <<>>)
    ELSE Err(s, "OnlyFinishedGameCanBeReset")

\* variant: a registration is accepted whatever value comes with it
register_player_any_stake(s0, id, name, value) ==
    LET s == [s0 EXCEPT !.balance = @ + value]
    IN  IF s.state.tag # "Forming"
        THEN Err(s, "PlayersCanOnlyBeRegisteredInTheFormingPhase")
        ELSE IF Len(name) \notin ALLOWED_NAME_SIZES THEN Err(s, "InvalidLengthForName")
        ELSE IF ~(Len(s.players) < PLAYER_LIMIT) THEN Err(s, "MaximumPlayerCountReached")
        ELSE LET f == find_player(id, s.players)
             IN  IF f.found THEN Err(s, "PlayerAlreadyRegistered")
                 ELSE IF \E i \in 1..Len(s.players) : s.players[i].name = name
                      THEN Err(s, "ThisNameIsAlreadyTaken")
                 ELSE Ok([s EXCEPT !.players = insert(s.players, f.idx, Player(id, name))],
                         <<PlayerRegistered(id)>>)

\* payable: the transferred value is credited before the message runs
register_player(s0, id, name, value) ==
    LET s == [s0 EXCEPT !.balance = @ + value]
    IN  IF s.state.tag # "Forming"
        THEN Err(s, "PlayersCanOnlyBeRegisteredInTheFormingPhase")
        ELSE IF Len(name) \notin ALLOWED_NAME_SIZES THEN Err(s, "InvalidLengthForName")
        ELSE IF buy_in # value THEN Err(s, "WrongBuyIn")
        ELSE IF ~(Len(s.players) < PLAYER_LIMIT) THEN Err(s, "MaximumPlayerCountReached")
        ELSE LET f == find_player(id, s.players)
             IN  IF f.found THEN Err(s, "PlayerAlreadyRegistered")
                 ELSE IF \E i \in 1..Len(s.players) : s.players[i].name = name
                      THEN Err(s, "ThisNameIsAlreadyTaken")
                 ELSE Ok([s EXCEPT !.players = insert(s.players, f.idx, Player(id, name))],
                         <<PlayerRegistered(id)>>)

\* The messages that only read (lib.rs:466-499), as functions of the storage
\* they are dispatched on
state_(s) == s.state

players_(s) == s.players

\* {} for None, {entry} for Some(entry)
field(s, coord) ==
    IF idx(coord) = {} THEN {}
    ELSE LET i == CHOOSE v \in idx(coord) : TRUE
         IN  IF i \in DOMAIN s.board THEN {s.board[i]} ELSE {}

\* variant: the marker is compared with le instead of lt
submit_turn_begin_le(s) ==
    IF ~is_running(s) THEN Err(s, "GameCannotBeEndedOrHasAlreadyEnded")
    ELSE IF s.state.tag # "Running" THEN Err(s, "ThisGameDoesNotAcceptTurnsRightNow")
    ELSE IF s.last_turn = {} THEN Err(s, "ValueWasNotSetWhenStartingTheGame")
    ELSE IF ~((CHOOSE v \in s.last_turn : TRUE) <= block)
         THEN Err(s, "TurnWasAlreadySubmittedForThisBlock")
    ELSE Ok([s EXCEPT !.last_turn = {block}], <<>>)

\* variant: the marker is not written before the players are called
submit_turn_begin_unmarked(s) ==
    IF ~is_running(s) THEN Err(s, "GameCannotBeEndedOrHasAlreadyEnded")
    ELSE IF s.state.tag # "Running" THEN Err(s, "ThisGameDoesNotAcceptTurnsRightNow")
    ELSE IF s.last_turn = {} THEN Err(s, "ValueWasNotSetWhenStartingTheGame")
    ELSE IF ~((CHOOSE v \in s.last_turn : TRUE) < block)
         THEN Err(s, "TurnWasAlreadySubmittedForThisBlock")
    ELSE Ok(s, <<>>)

\* variant: the running check is negated, as it is in end_game
submit_turn_begin_negated(s) ==
    IF is_running(s) THEN Err(s, "GameCannotBeEndedOrHasAlreadyEnded")
    ELSE IF s.state.tag # "Running" THEN Err(s, "ThisGameDoesNotAcceptTurnsRightNow")
    ELSE IF s.last_turn = {} THEN Err(s, "ValueWasNotSetWhenStartingTheGame")
    ELSE IF ~((CHOOSE v \in s.last_turn : TRUE) < block)
         THEN Err(s, "TurnWasAlreadySubmittedForThisBlock")
    ELSE Ok([s EXCEPT !.last_turn = {block}], <<>>)

\* submit_turn up to and including the write of the marker (lib.rs:302-326)
submit_turn_begin(s) ==
    IF ~is_running(s) THEN Err(s, "GameCannotBeEndedOrHasAlreadyEnded")
    ELSE IF s.state.tag # "Running" THEN Err(s, "ThisGameDoesNotAcceptTurnsRightNow")
    ELSE IF s.last_turn = {} THEN Err(s, "ValueWasNotSetWhenStartingTheGame")
    ELSE IF ~((CHOOSE v \in s.last_turn : TRUE) < block)
         THEN Err(s, "TurnWasAlreadySubmittedForThisBlock")
    ELSE Ok([s EXCEPT !.last_turn = {block}], <<>>)

\* variant: the gas the player has used is not counted
gas_left_refilled(p, num_players) ==
    calc_gas_budget(calc_gas_limit(num_players), rounds)

\* gas the player may still use in this game (lib.rs:354-356)
gas_left(p, num_players) ==
    saturating_sub(calc_gas_budget(calc_gas_limit(num_players), rounds), p.gas_used)

\* variant: the players are told the number of the round, not its index
GameInfo_round_number(ps, current_round) ==
    [rounds_played |-> current_round + 1,
     gas_left |-> 0,
     player_scores |-> [k \in 1..Len(ps) |-> <<ps[k].name, ps[k].score>>]]

\* the information passed to the players, as built before the loop
\* (lib.rs:339-346); gas_left is set per player in the loop
GameInfo(ps, current_round) ==
    [rounds_played |-> current_round,
     gas_left |-> 0,
     player_scores |-> [k \in 1..Len(ps) |-> <<ps[k].name, ps[k].score>>]]

\* The head of the loop body (lib.rs:348-363): starting at 0-based index i,
\* pass over the players outside the batch and those without gas, up to the
\* next player that is called or the end of the vector.
RECURSIVE next_call(_, _, _, _)
next_call(ps, i, current_round, evs) ==
    IF i >= Len(ps) THEN [idx |-> i, events |-> evs]
    ELSE LET num_batches == calc_num_batches(Len(ps))
         IN  IF i % num_batches # current_round % num_batches
             THEN next_call(ps, i + 1, current_round, evs)
             ELSE IF gas_left(ps[i + 1], Len(ps)) = 0
             THEN next_call(ps, i + 1, current_round,
                            Append(evs, TurnTaken(ps[i + 1].id, BudgetExhausted)))
             ELSE [idx |-> i, events |-> evs]

\* What the player call returned: Ok(Ok(Some(turn))), Ok(Ok(None)) or a failure
Some(t) == [kind |-> "Some", turn |-> t]
None == [kind |-> "None"]
Failed == [kind |-> "Err"]

\* variant: the field is painted without looking at its entry
take_turn_overwriting(bd, player, turn, gas_used, current_round) ==
    LET charged == [player EXCEPT !.gas_used = @ + gas_used]
    IN  IF turn.kind = "Some" /\ idx(turn.turn) # {}
        THEN LET i == CHOOSE v \in idx(turn.turn) : TRUE
             IN  IF ~is_valid_coord(turn.turn)
                 THEN [player |-> charged, board |-> bd,
                       outcome |-> OutOfBounds(turn.turn)]
                 ELSE [player |-> [charged EXCEPT
                                      !.score = @ + saturating_add(current_round, 1)],
                       board |-> (i :> FieldEntry(player.id, current_round)) @@ bd,
                       outcome |-> Success(turn.turn)]
        ELSE IF turn.kind = "None"
        THEN [player |-> player, board |-> bd, outcome |-> NoTurn]
        ELSE [player |-> charged, board |-> bd, outcome |-> BrokenPlayer]

\* variant: a painted field is worth the round index, without the + 1
take_turn_round_index(bd, player, turn, gas_used, current_round) ==
    LET charged == [player EXCEPT !.gas_used = @ + gas_used]
    IN  IF turn.kind = "Some" /\ idx(turn.turn) # {}
        THEN LET i == CHOOSE v \in idx(turn.turn) : TRUE
             IN  IF ~is_valid_coord(turn.turn)
                 THEN [player |-> charged, board |-> bd,
                       outcome |-> OutOfBounds(turn.turn)]
                 ELSE IF i \in DOMAIN bd
                 THEN [player |-> charged, board |-> bd,
                       outcome |-> Occupied(turn.turn, bd[i].owner)]
                 ELSE [player |-> [charged EXCEPT !.score = @ + current_round],
                       board |-> (i :> FieldEntry(player.id, current_round)) @@ bd,
                       outcome |-> Success(turn.turn)]
        ELSE IF turn.kind = "None"
        THEN [player |-> player, board |-> bd, outcome |-> NoTurn]
        ELSE [player |-> charged, board |-> bd, outcome |-> BrokenPlayer]

\* variant: a player that fails is not charged
take_turn_free_failure(bd, player, turn, gas_used, current_round) ==
    LET charged == [player EXCEPT !.gas_used = @ + gas_used]
    IN  IF turn.kind = "Some" /\ idx(turn.turn) # {}
        THEN LET i == CHOOSE v \in idx(turn.turn) : TRUE
             IN  IF ~is_valid_coord(turn.turn)
                 THEN [player |-> charged, board |-> bd,
                       outcome |-> OutOfBounds(turn.turn)]
                 ELSE IF i \in DOMAIN bd
                 THEN [player |-> charged, board |-> bd,
                       outcome |-> Occupied(turn.turn, bd[i].owner)]
                 ELSE [player |-> [charged EXCEPT
                                      !.score = @ + saturating_add(current_round, 1)],
                       board |-> (i :> FieldEntry(player.id, current_round)) @@ bd,
                       outcome |-> Success(turn.turn)]
        ELSE IF turn.kind = "None"
        THEN [player |-> player, board |-> bd, outcome |-> NoTurn]
        ELSE [player |-> player, board |-> bd, outcome |-> BrokenPlayer]

\* The resolution of one returned call (lib.rs:384-417)
take_turn(bd, player, turn, gas_used, current_round) ==
    LET charged == [player EXCEPT !.gas_used = @ + gas_used]
    IN  IF turn.kind = "Some" /\ idx(turn.turn) # {}
        THEN LET i == CHOOSE v \in idx(turn.turn) : TRUE
             IN  IF ~is_valid_coord(turn.turn)
                 THEN [player |-> charged, board |-> bd,
                       outcome |-> OutOfBounds(turn.turn)]
                 ELSE IF i \in DOMAIN bd
                 THEN [player |-> charged, board |-> bd,
                       outcome |-> Occupied(turn.turn, bd[i].owner)]
                 ELSE [player |-> [charged EXCEPT
                                      !.score = @ + saturating_add(current_round, 1)],
                       board |-> (i :> FieldEntry(player.id, current_round)) @@ bd,
                       outcome |-> Success(turn.turn)]
        ELSE IF turn.kind = "None"
        THEN [player |-> player, board |-> bd, outcome |-> NoTurn]
        ELSE [player |-> charged, board |-> bd, outcome |-> BrokenPlayer]

-----------------------------------------------------------------------------
(* Inputs *)

Turns == {[x |-> 0, y |-> 0], [x |-> 0, y |-> 1], [x |-> 1, y |-> 0],
          [x |-> 1, y |-> 1], [x |-> 1, y |-> U32_MAX]}
Responses == {Some(t) : t \in Turns} \cup {None, Failed}
\* gas measured around a call of a player: next to nothing ("low"), or the
\* whole limit of the call ("limit")
GasUsed(cost) ==
    IF cost = "low" \/ stack = <<>> THEN 1
    ELSE calc_gas_limit(Len(stack[Len(stack)].players))

NoInvocation == [player |-> 0]

\* recorded as the caller of the messages that never read env().caller()
AnyCaller == 0

\* who can be the caller of a message: any account from outside; while a
\* player contract is running, that contract or the opener
Callers ==
    IF stack = <<>> THEN Accounts
    ELSE LET f == stack[Len(stack)] IN {f.players[f.idx + 1].id, opener}

-----------------------------------------------------------------------------
(* Initial state: the constructor (lib.rs:114-136), run in block 0 *)

Constructed(new) ==
    /\ dimensions = new.dimensions
    /\ buy_in = new.buy_in
    /\ rounds = new.rounds
    /\ opener = new.caller
    /\ state = Forming(saturating_add(0, new.forming_rounds))
    /\ block = 0
    /\ board = <<>>
    /\ players = <<>>
    /\ last_turn = {}
    /\ balance = 0
    /\ terminated = FALSE
    /\ stack = <<>>
    /\ events = <<>>
    /\ last = [op |-> "new", caller |-> new.caller, res |-> "Ok", nested |-> FALSE]
    /\ invoked = NoInvocation
    /\ since_start = {}

Init == \E new \in Constructions : Constructed(new)

-----------------------------------------------------------------------------
(* Actions *)

\* a message runs to its return: commit or revert, record the result
Return(op, caller, r) ==
    LET s == ink_message(Storage, r)
        nested == stack # <<>>
        before == IF nested THEN events ELSE <<>>
    IN  /\ state' = s.state
        /\ board' = s.board
        /\ players' = s.players
        /\ last_turn' = s.last_turn
        /\ balance' = s.balance
        /\ terminated' = s.terminated
        /\ events' = IF r.res = "Ok" THEN before \o r.events ELSE before
        /\ last' = [op |-> op, caller |-> caller, res |-> r.res, nested |-> nested]
        /\ invoked' = NoInvocation
        /\ since_start' = IF r.res # "Ok" THEN since_start
                          ELSE IF op = "start_game" THEN {0}
                          ELSE IF op = "reset_game" THEN {}
                          ELSE IF op = "end_game"
                          THEN {IF n = 0 THEN 1 ELSE 2 : n \in since_start}
                          ELSE since_start
        /\ UNCHANGED <<config, block, stack>>

\* submit_turn runs on from 0-based index i of its loop with the in-memory
\* players ps: to the next call of a player, or to its end (lib.rs:425-430),
\* where the players and the root storage are written back
Continue(below, f, ps, bd, lt, i, evs) ==
    LET nx == next_call(ps, i, f.current_round, evs)
        nested == below # <<>>
    IN  /\ board' = bd
        /\ last_turn' = lt
        /\ IF nx.idx >= Len(ps)
           THEN /\ players' = ps
                /\ state' = Running(saturating_add(f.current_round, 1))
                /\ stack' = below
                /\ events' = Append(nx.events,
                                    RoundIncremented(saturating_add(f.current_round, 1)))
                /\ last' = [op |-> "submit_turn", caller |-> AnyCaller,
                            res |-> "Ok", nested |-> nested]
           ELSE /\ UNCHANGED <<players, state>>
                /\ stack' = Append(below,
                       [f EXCEPT !.idx = nx.idx, !.players = ps,
                                 !.game_info.gas_left = gas_left(ps[nx.idx + 1], Len(ps))])
                /\ events' = nx.events
                /\ last' = [op |-> "submit_turn", caller |-> AnyCaller,
                            res |-> "Calling", nested |-> nested]

Destroy(caller) ==
    /\ ~terminated /\ caller \in Callers
    /\ Return("destroy", caller, destroy(Storage, caller))

StartGame(caller) ==
    /\ ~terminated /\ caller \in Callers
    /\ Return("start_game", caller, start_game(Storage, caller))

EndGame(caller, ledger_ok) ==
    /\ ~terminated /\ caller \in Callers
    /\ Return("end_game", caller, end_game(Storage, caller, ledger_ok))

ResetGame ==
    /\ ~terminated
    /\ Return("reset_game", AnyCaller, reset_game(Storage))

RegisterPlayer(id, name, value) ==
    /\ ~terminated
    /\ Return("register_player", AnyCaller, register_player(Storage, id, name, value))

SubmitTurn ==
    /\ ~terminated
    /\ Len(stack) < MaxDepth
    /\ LET r == submit_turn_begin(Storage)
       IN  IF r.res # "Ok"
           THEN Return("submit_turn", AnyCaller, r)
           ELSE LET ps == r.s.players
                    current_round == r.s.state.rounds_played
                    f == [idx |-> 0, players |-> ps,
                          current_round |-> current_round,
                          game_info |-> GameInfo(ps, current_round)]
                IN  /\ Continue(stack, f, ps, r.s.board, r.s.last_turn, 0,
                                IF stack = <<>> THEN <<>> ELSE events)
                    /\ invoked' = NoInvocation
                    /\ UNCHANGED <<config, balance, terminated, block, since_start>>

\* the called player contract returns (lib.rs:378-422)
PlayerReturns(turn, gas_used) ==
    /\ ~terminated /\ stack # <<>>
    /\ LET f == stack[Len(stack)]
           p == f.players[f.idx + 1]
           t == take_turn(board, p, turn, gas_used, f.current_round)
           ps == [f.players EXCEPT ![f.idx + 1] = t.player]
       IN  /\ invoked' = [player |-> p.id, turn |-> turn, gas_used |-> gas_used,
                          outcome |-> t.outcome, game_info |-> f.game_info]
           /\ Continue(SubSeq(stack, 1, Len(stack) - 1), f, ps, t.board, last_turn,
                       f.idx + 1, Append(events, TurnTaken(p.id, t.outcome)))
           /\ UNCHANGED <<config, balance, terminated, block, since_start>>

AdvanceBlock ==
    /\ ~terminated /\ stack = <<>>
    /\ block < MaxBlock
    /\ block' = block + 1
    /\ events' = <<>>
    /\ last' = [op |-> "advance_block", caller |-> AnyCaller, res |-> "Ok", nested |-> FALSE]
    /\ invoked' = NoInvocation
    /\ UNCHANGED <<config, state, board, players, last_turn, balance, terminated,
                   stack, since_start>>

Next ==
    \/ \E caller \in Accounts : Destroy(caller)
    \/ \E caller \in Accounts : StartGame(caller)
    \/ \E caller \in Accounts, ledger_ok \in BOOLEAN : EndGame(caller, ledger_ok)
    \/ ResetGame
    \/ \E id \in Accounts, name \in Names, value \in Values :
           RegisterPlayer(id, name, value)
    \/ SubmitTurn
    \/ \E turn \in Responses : PlayerReturns(turn, GasUsed("limit"))
    \/ AdvanceBlock

Spec == Init /\ [][Next]_vars

\* One player alone on a 2x2 board, free of charge, for 4 rounds; its calls
\* cost next to nothing or the whole limit
SoloGame == [dimensions |-> [x |-> 2, y |-> 2], buy_in |-> 0, forming_rounds |-> 0,
             rounds |-> 4, caller |-> 1]
SoloTurns == {[x |-> 0, y |-> 0], [x |-> 1, y |-> 0], [x |-> 0, y |-> 1],
              [x |-> 1, y |-> 1], [x |-> 2, y |-> 0], [x |-> 2, y |-> 1]}
SoloResponses == {Some(t) : t \in SoloTurns} \cup {None, Failed}

InitSolo == Constructed(SoloGame)

NextSolo ==
    \/ RegisterPlayer(2, "bob", 0)
    \/ StartGame(1)
    \/ SubmitTurn
    \/ \E turn \in SoloResponses, cost \in {"low", "limit"} :
           PlayerReturns(turn, GasUsed(cost))
    \/ AdvanceBlock
    \/ EndGame(1, TRUE)

SpecSolo == InitSolo /\ [][NextSolo]_vars

\* The solo game with a player that answers every call, at next to no cost,
\* with a field of the board that it has not proposed before
FreshFields == {f \in Fields : \A i \in idx(f) : i \notin DOMAIN board}

InitPainter == Constructed(SoloGame)

NextPainter ==
    \/ RegisterPlayer(2, "bob", 0)
    \/ StartGame(1)
    \/ SubmitTurn
    \/ \E f \in FreshFields : PlayerReturns(Some(f), GasUsed("low"))
    \/ AdvanceBlock

SpecPainter == InitPainter /\ [][NextPainter]_vars

\* The end of a game of three players on a 4x3 board after its 4 rounds:
\* player i has painted, in the rounds of `painted[i]`, the fields of row
\* i - 1, and has used `used[i]` gas.
RoundSets == {{0, 1, 2, 3}, {1, 2, 3}, {3}, {}}
GasTotals == {0, 3, 5}
ScoringNames == <<"bob", "eve", "dan">>

RECURSIVE SumOf(_)
SumOf(S) == IF S = {} THEN 0
            ELSE LET m == CHOOSE v \in S : TRUE IN m + SumOf(S \ {m})

InitScoring ==
    /\ dimensions = [x |-> 4, y |-> 3]
    /\ buy_in = 1
    /\ rounds = 4
    /\ opener = 1
    /\ block = 4
    /\ state = Running(4)
    /\ \E painted \in [1..3 -> RoundSets], used \in [1..3 -> GasTotals] :
           /\ players = [i \in 1..3 |->
                            [id |-> i, name |-> ScoringNames[i],
                             gas_used |-> used[i],
                             score |-> SumOf({r + 1 : r \in painted[i]})]]
           /\ board = [k \in {4 * (i - 1) + r : i \in 1..3, r \in 0..3}
                             \cap UNION {{4 * (i - 1) + r : r \in painted[i]} : i \in 1..3}
                          |-> FieldEntry((k \div 4) + 1, k % 4)]
    /\ last_turn = {4}
    /\ balance = 3
    /\ terminated = FALSE
    /\ stack = <<>>
    /\ events = <<>>
    /\ last = [op |-> "advance_block", caller |-> AnyCaller, res |-> "Ok",
               nested |-> FALSE]
    /\ invoked = NoInvocation
    /\ since_start = {0}

NextScoring ==
    \E caller \in Accounts, ledger_ok \in BOOLEAN : EndGame(caller, ledger_ok)

SpecScoring == InitScoring /\ [][NextScoring]_vars

\* Registrations alone, with more accounts and names than Next uses
RegistryIds == 1..4
RegistryNames == Names \cup {"dan", "kim"}

NextRegistry ==
    \E id \in RegistryIds, name \in RegistryNames, value \in Values :
        RegisterPlayer(id, name, value)

SpecRegistry == Init /\ [][NextRegistry]_vars

\* The game under the schedule of a keeper that triggers submit_turn in
\* every block of a running game: the block does not pass before the round
\* of the block was triggered, the blocks go on, and a called player returns
\* (its call is bounded by the gas limit)
Tick ==
    /\ is_running(Storage) => last_turn = {block}
    /\ AdvanceBlock

NextFair ==
    \/ \E caller \in Accounts : Destroy(caller)
    \/ \E caller \in Accounts : StartGame(caller)
    \/ \E caller \in Accounts, ledger_ok \in BOOLEAN : EndGame(caller, ledger_ok)
    \/ ResetGame
    \/ \E id \in Accounts, name \in Names, value \in Values :
           RegisterPlayer(id, name, value)
    \/ SubmitTurn
    \/ \E turn \in Responses : PlayerReturns(turn, GasUsed("limit"))
    \/ Tick

Fairness ==
    /\ WF_vars(Tick)
    /\ WF_vars(SubmitTurn)
    /\ WF_vars(\E turn \in Responses : PlayerReturns(turn, GasUsed("limit")))

SpecFair == Init /\ [][NextFair]_vars /\ Fairness

\* Short free games: one without any round, and one of a single round that
\* starts late.  Their players have no gas budget and are never called.
ShortGames ==
    {[dimensions |-> [x |-> 1, y |-> 2], buy_in |-> 0, forming_rounds |-> 0,
      rounds |-> 0, caller |-> 1],
     [dimensions |-> [x |-> 1, y |-> 2], buy_in |-> 0, forming_rounds |-> 1,
      rounds |-> 1, caller |-> 1]}

InitShort == \E new \in ShortGames : Constructed(new)

NextShort ==
    \/ \E caller \in Accounts : Destroy(caller)
    \/ \E caller \in Accounts : StartGame(caller)
    \/ \E caller \in Accounts, ledger_ok \in BOOLEAN : EndGame(caller, ledger_ok)
    \/ ResetGame
    \/ \E id \in Accounts, name \in Names, value \in Values :
           RegisterPlayer(id, name, value)
    \/ SubmitTurn
    \/ AdvanceBlock

SpecShort == InitShort /\ [][NextShort]_vars

\* Games of 1 up to MaxBatchPlayers players on a 3x5 board: player k registers
\* as account k; the player at 0-based index i of the registry always answers
\* with the field BatchTurn(i), at next to no cost
MaxBatchPlayers == 31
BatchGame == [dimensions |-> [x |-> 3, y |-> 5], buy_in |-> 0, forming_rounds |-> 0,
              rounds |-> 4, caller |-> 1]
BatchName(k) == "player" \o ToString(k)
BatchTurn(i) == [x |-> i % BatchGame.dimensions.x,
                 y |-> (i \div BatchGame.dimensions.x) % BatchGame.dimensions.y]

InitBatches == Constructed(BatchGame)

NextBatches ==
    \/ /\ Len(players) < MaxBatchPlayers
       /\ RegisterPlayer(Len(players) + 1, BatchName(Len(players) + 1), 0)
    \/ StartGame(1)
    \/ SubmitTurn
    \/ /\ stack # <<>>
       /\ PlayerReturns(Some(BatchTurn(stack[Len(stack)].idx)), GasUsed("low"))
    \/ AdvanceBlock

SpecBatches == InitBatches /\ [][NextBatches]_vars

-----------------------------------------------------------------------------
(* Steps, as seen from the state before and the state after *)

\* a message came back with an error
Failed_(res) == res \notin {"Ok", "Calling"}

\* the step is a dispatch of submit_turn (and not the return of a player)
SubmitTurnStep == last'.op = "submit_turn" /\ invoked' = NoInvocation

\* the step is the return of the player that was being called
PlayerReturnsStep == stack # <<>> /\ invoked' # NoInvocation

\* the marker is set and not lower than the current block
MarkerReached == last_turn # {} /\ \A v \in last_turn : v >= block

StorageUnchanged == UNCHANGED <<state, board, players, last_turn>>

-----------------------------------------------------------------------------
\* C1 (as stated, for a game that was started): every submit_turn issued
\* while the marker is not lower than the current block fails with
\* TurnWasAlreadySubmittedForThisBlock and changes neither rounds_played,
\* board, registry nor marker.
C1_AlwaysDuplicateTrigger ==
    [][(SubmitTurnStep /\ MarkerReached /\ state.tag = "Running")
          => /\ last'.res = "TurnWasAlreadySubmittedForThisBlock"
             /\ StorageUnchanged]_vars

\* C1 (amended): at most one submit_turn succeeds per block.  A submit_turn
\* issued while the marker is not lower than the current block changes neither
\* rounds_played, board, registry nor marker; it fails with
\* TurnWasAlreadySubmittedForThisBlock if the game is running (Running with
\* rounds_played < rounds) and with GameCannotBeEndedOrHasAlreadyEnded if not.
\* A submit_turn that is accepted found the marker below the current block
\* and sets it to the current block.
C1_OneTurnPerBlock ==
    [][SubmitTurnStep
          => /\ MarkerReached
                  => /\ StorageUnchanged
                     /\ last'.res = IF is_running(Storage)
                                    THEN "TurnWasAlreadySubmittedForThisBlock"
                                    ELSE "GameCannotBeEndedOrHasAlreadyEnded"
             /\ ~Failed_(last'.res)
                  => /\ \A v \in last_turn : v < block
                     /\ last_turn' = {block}]_vars

C1_Witness ==
    /\ last.op = "submit_turn" /\ ~last.nested
    /\ last.res = "TurnWasAlreadySubmittedForThisBlock"
    /\ last_turn = {block}

\* C2: the marker is written before any player is called, a submit_turn
\* issued by a called player fails with TurnWasAlreadySubmittedForThisBlock
\* and changes nothing, and rounds_played grows by exactly one per accepted
\* external submit_turn, at the moment it returns.
C2_ReentrantTurnRejected ==
    [][/\ stack' # <<>> => last_turn' = {block}
       /\ (SubmitTurnStep /\ stack # <<>>)
            => /\ last'.res = "TurnWasAlreadySubmittedForThisBlock"
               /\ StorageUnchanged /\ UNCHANGED <<stack, balance>>
       /\ stack # <<>>
            => IF stack' = <<>>
               THEN state' = Running(state.rounds_played + 1)
               ELSE state' = state]_vars

C2_Witness ==
    /\ stack # <<>>
    /\ last.op = "submit_turn" /\ last.nested
    /\ last.res = "TurnWasAlreadySubmittedForThisBlock"

\* C3: in a running game whose marker is below the current block, submit_turn
\* is accepted, and whatever a called player returns, the call goes on and
\* returns Ok with rounds_played advanced by one.
C3_PlayersCannotFailTheRound ==
    [][/\ (SubmitTurnStep /\ stack = <<>> /\ is_running(Storage)
             /\ \A v \in last_turn : v < block)
            => ~Failed_(last'.res)
       /\ PlayerReturnsStep
            => /\ last'.op = "submit_turn" /\ ~Failed_(last'.res)
               /\ last'.res = "Ok" <=> Len(stack') < Len(stack)
               /\ (Len(stack) = 1 /\ last'.res = "Ok")
                    => state' = Running(state.rounds_played + 1)]_vars

C3_Witness ==
    /\ last.op = "submit_turn" /\ last.res = "Ok" /\ ~last.nested
    /\ invoked # NoInvocation
    /\ invoked.outcome.kind = "BrokenPlayer"

\* C4: a call of register_player, start_game, submit_turn, end_game,
\* reset_game or destroy that returns an error leaves phase, board, registry,
\* marker and held balance as they were.
C4_ErrorsChangeNothing ==
    [][Failed_(last'.res)
          => UNCHANGED <<state, board, players, last_turn, balance, terminated,
                         stack, config>>]_vars

C4_Witness ==
    /\ last.op = "end_game" /\ last.res = "InkEnvError"
    /\ balance > 0 /\ state.tag = "Running"

\* the index a returned turn resolves to, {} if it is none or out of bounds
Resolves(turn) ==
    IF turn.kind = "Some" /\ is_valid_coord(turn.turn) THEN idx(turn.turn) ELSE {}

\* C5: an entry of the board keeps its owner and its round until reset_game
\* (or the removal of the contract), and a turn that resolves to the index
\* of an entry yields Occupied with the owner of the entry.
C5_ClaimsAreWriteOnce ==
    [][\A i \in DOMAIN board :
          /\ ~(last'.op \in {"reset_game", "destroy"} /\ last'.res = "Ok")
               => i \in DOMAIN board' /\ board'[i] = board[i]
          /\ (PlayerReturnsStep /\ i \in Resolves(invoked'.turn))
               => invoked'.outcome = Occupied(invoked'.turn.turn, board[i].owner)]_vars

C5_Witness ==
    /\ invoked # NoInvocation
    /\ invoked.outcome.kind = "Occupied"
    /\ invoked.outcome.player # invoked.player

HasId(id) == \E i \in 1..Len(players) : players[i].id = id
HasName(name) == \E i \in 1..Len(players) : players[i].name = name

\* C6 (as stated): a registration with an id already present fails with
\* PlayerAlreadyRegistered and one with a name already present fails with
\* ThisNameIsAlreadyTaken.
C6_DuplicateAlwaysReported ==
    \A id \in RegistryIds, name \in RegistryNames, value \in Values :
        LET r == register_player(Storage, id, name, value)
        IN  /\ HasId(id) => r.res = "PlayerAlreadyRegistered"
            /\ HasName(name) => r.res = "ThisNameIsAlreadyTaken"

\* C6 (amended): after any sequence of register_player calls the registry
\* is strictly sorted by id and holds no two players with the same id or the
\* same name.  A registration that passes the checks of phase, name length,
\* stake and capacity fails with PlayerAlreadyRegistered if its id is
\* present, and with ThisNameIsAlreadyTaken if its id is new and its name is
\* present; a registration that is accepted has a new id and a new name.
C6_RegistrySortedUnique ==
    /\ \A i \in 1..Len(players) : \A j \in 1..Len(players) :
           i < j => /\ players[i].id < players[j].id
                    /\ players[i].name # players[j].name
    /\ \A id \in RegistryIds, name \in RegistryNames, value \in Values :
           LET r == register_player(Storage, id, name, value)
               passes == /\ state.tag = "Forming"
                         /\ Len(name) \in ALLOWED_NAME_SIZES
                         /\ value = buy_in
                         /\ Len(players) < PLAYER_LIMIT
           IN  /\ (passes /\ HasId(id)) => r.res = "PlayerAlreadyRegistered"
               /\ (passes /\ ~HasId(id) /\ HasName(name))
                    => r.res = "ThisNameIsAlreadyTaken"
               /\ r.res = "Ok" => ~HasId(id) /\ ~HasName(name)

C6_Witness ==
    /\ Len(players) = 3 /\ players[2].id = 3
    /\ last.op = "register_player" /\ last.res = "ThisNameIsAlreadyTaken"

\* C7: end_game is accepted only in phase Running with rounds_played >=
\* rounds; in Forming, in Finished and in Running with rounds_played < rounds
\* it fails, pays nothing and leaves the phase as it is.
C7_EndOnlyAfterLastRound ==
    [][last'.op = "end_game"
          => IF state.tag = "Running" /\ state.rounds_played >= rounds
             THEN TRUE
             ELSE Failed_(last'.res) /\ UNCHANGED <<state, balance>>]_vars

\* C8: between a start_game and the next reset_game or destroy at most one
\* end_game is accepted.
C8_SettledOncePerGame == \A n \in since_start : n <= 1

\* C9: the winner recorded by end_game is a registered player with the
\* highest score and, among the players with that score, the lowest gas_used;
\* for (score 10, used 5), (score 10, used 3), (score 9, used 0) it is the
\* second player.
C9_WinnerIsBest ==
    state.tag = "Finished"
        => /\ \E w \in 1..Len(players) :
                  /\ players[w].id = state.winner
                  /\ \A i \in 1..Len(players) :
                         /\ players[i].score <= players[w].score
                         /\ players[i].score = players[w].score
                              => players[w].gas_used <= players[i].gas_used
           /\ ( /\ Len(players) = 3
                /\ [i \in 1..3 |-> players[i].score] = <<10, 10, 9>>
                /\ [i \in 1..3 |-> players[i].gas_used] = <<5, 3, 0>> )
                => state.winner = players[2].id

C9_Witness ==
    /\ state.tag = "Finished" /\ last.op = "end_game" /\ last.res = "Ok"
    /\ Len(players) = 3
    /\ [i \in 1..3 |-> players[i].score] = <<10, 10, 9>>
    /\ [i \in 1..3 |-> players[i].gas_used] = <<5, 3, 0>>
    /\ state.winner = players[2].id

\* the players as the submit_turn in progress holds them, else as stored
PlayersNow == IF stack # <<>> THEN stack[Len(stack)].players ELSE players

\* C10: a Success in the round of index r (rounds_played before the advance)
\* adds exactly r + 1 to the score of the player and records an entry with
\* that player as owner and claimed_at = r at a free index; every other
\* outcome, and the skipping of a player without budget, leaves scores and
\* board as they are.  While the phase is Running no score decreases.
C10_ScoreOfAClaim ==
    [][/\ PlayerReturnsStep
            => LET f == stack[Len(stack)]
                   i == f.idx + 1
                   r == state.rounds_played
                   o == invoked'.outcome
               IN  /\ f.current_round = r
                   /\ \A j \in 1..Len(f.players) :
                          PlayersNow'[j].score =
                              f.players[j].score
                                  + (IF j = i /\ o.kind = "Success" THEN r + 1 ELSE 0)
                   /\ IF o.kind = "Success"
                      THEN \E k \in idx(o.turn) :
                              /\ k \notin DOMAIN board
                              /\ board' = (k :> FieldEntry(f.players[i].id, r)) @@ board
                      ELSE /\ board' = board
                           /\ o.kind \in {"OutOfBounds", "Occupied", "BrokenPlayer",
                                           "NoTurn"}
       /\ (SubmitTurnStep /\ ~Failed_(last'.res))
            => /\ board' = board
               /\ \A j \in 1..Len(players) : PlayersNow'[j].score = players[j].score
       /\ (state.tag = "Running" /\ state'.tag = "Running")
            => /\ Len(players') = Len(players)
               /\ \A j \in 1..Len(players) : players'[j].score >= players[j].score
      ]_vars

C10_Witness ==
    /\ invoked # NoInvocation
    /\ invoked.outcome.kind = "Success"
    /\ invoked.game_info.rounds_played = 2
    /\ Len(players) = 1 /\ PlayersNow[1].score = 1 + 3
    /\ \E k \in DOMAIN board : board[k].claimed_at = 2

\* the TurnTaken events for the player with this id in a sequence of events
TurnsTakenBy(evs, id) ==
    {k \in 1..Len(evs) : evs[k].event = "TurnTaken" /\ evs[k].player = id}

\* C11: the number of batches is 1 for up to 30 players and 2 for more; of
\* any such number of consecutive rounds, every index of the registry is in
\* the batch (index mod batches = round mod batches) of exactly one.  A round
\* calls only players of its batch, takes exactly one turn for each of them,
\* and leaves score and gas_used of all other players as they are.
C11_BatchesPartitionPlayers ==
    [][LET ps == IF stack # <<>> THEN stack[1].players ELSE players
           n == Len(ps)
           nb == IF n <= 30 THEN 1 ELSE 2
           r == state.rounds_played
       IN  /\ calc_num_batches(n) = nb
           /\ \A i \in 0..(n - 1), r0 \in 0..rounds :
                  Cardinality({k \in 0..(nb - 1) : i % nb = (r0 + k) % nb}) = 1
           /\ PlayerReturnsStep
                => stack[Len(stack)].idx % nb = r % nb
           /\ (stack # <<>> /\ stack' = <<>>)
                => /\ state' = Running(r + 1)
                   /\ \A j \in 1..n :
                          IF (j - 1) % nb = r % nb
                          THEN Cardinality(TurnsTakenBy(events', players[j].id)) = 1
                          ELSE /\ TurnsTakenBy(events', players[j].id) = {}
                               /\ players'[j] = players[j]]_vars

C11_Witness ==
    /\ Len(players) = 31 /\ state = Running(2)
    /\ last.op = "submit_turn" /\ last.res = "Ok"
    /\ players[1].score = 1 /\ players[1].gas_used = 1
    /\ players[2].score = 0 /\ players[2].gas_used = 1
    /\ Cardinality(TurnsTakenBy(events, 2)) = 1 /\ TurnsTakenBy(events, 1) = {}

\* C12 (as stated): every call of a player adds the gas the call used to the
\* gas_used of that player, whatever the call returned.
C12_EveryCallCharged ==
    [][PlayerReturnsStep
          => LET f == stack[Len(stack)]
                 i == f.idx + 1
             IN  PlayersNow'[i].gas_used = f.players[i].gas_used + invoked'.gas_used]_vars

\* C12 (amended): a call of a player that returns a turn (Success,
\* OutOfBounds, Occupied) or fails (BrokenPlayer) adds the gas the call used
\* to the gas_used of that player; a call that returns no turn (NoTurn) leaves
\* gas_used as it is.  The gas_used of the other players does not change.
C12_CallsChargedButNoTurn ==
    [][PlayerReturnsStep
          => LET f == stack[Len(stack)]
                 i == f.idx + 1
                 o == invoked'.outcome
             IN  /\ o.kind = "NoTurn" <=> invoked'.turn = None
                 /\ o.kind \in {"Success", "OutOfBounds", "Occupied", "BrokenPlayer",
                                 "NoTurn"}
                 /\ \A j \in 1..Len(f.players) :
                        PlayersNow'[j].gas_used =
                            f.players[j].gas_used
                                + (IF j = i /\ o.kind # "NoTurn"
                                   THEN invoked'.gas_used ELSE 0)]_vars

C12_Witness ==
    /\ invoked # NoInvocation
    /\ invoked.outcome.kind = "NoTurn" /\ invoked.gas_used = 1
    /\ invoked.game_info.rounds_played = 2
    /\ PlayersNow[1].gas_used = 1 + 1

\* C13: a call that returns a field with x >= width is resolved as
\* OutOfBounds: the player gains no score and no entry is written, while its
\* gas_used grows by the gas the call used.
C13_WideTurnIsOutOfBounds ==
    [][(PlayerReturnsStep /\ invoked'.turn.kind = "Some")
          => LET f == stack[Len(stack)]
                 i == f.idx + 1
                 t == invoked'.turn.turn
             IN  t.x >= dimensions.x
                   => /\ invoked'.outcome = OutOfBounds(t)
                      /\ PlayersNow'[i].score = f.players[i].score
                      /\ board' = board
                      /\ PlayersNow'[i].gas_used
                             = f.players[i].gas_used + invoked'.gas_used]_vars

JustStarted == state = Running(0) /\ stack = <<>>

\* C15 (as stated): start_game sets the marker to the current block, and a
\* submit_turn issued in the block of the start fails with
\* TurnWasAlreadySubmittedForThisBlock; the first round is played in a later
\* block.
C15_NoTurnInStartBlock ==
    [][/\ (last'.op = "start_game" /\ last'.res = "Ok") => last_turn' = {block}
       /\ (SubmitTurnStep /\ JustStarted /\ last_turn = {block})
            => /\ last'.res = "TurnWasAlreadySubmittedForThisBlock"
               /\ StorageUnchanged
       /\ (SubmitTurnStep /\ JustStarted /\ ~Failed_(last'.res))
            => \A v \in last_turn : v < block]_vars

\* C15 (amended): start_game sets the marker to the current block, and a
\* submit_turn issued in the block of the start fails and changes nothing:
\* with TurnWasAlreadySubmittedForThisBlock if the game has a round to play
\* (rounds > 0), with GameCannotBeEndedOrHasAlreadyEnded if rounds = 0.  The
\* first round is played in a later block.
C15_StartBlockHasNoRound ==
    [][/\ (last'.op = "start_game" /\ last'.res = "Ok") => last_turn' = {block}
       /\ (SubmitTurnStep /\ JustStarted /\ last_turn = {block})
            => /\ last'.res = IF rounds > 0
                              THEN "TurnWasAlreadySubmittedForThisBlock"
                              ELSE "GameCannotBeEndedOrHasAlreadyEnded"
               /\ StorageUnchanged
       /\ (SubmitTurnStep /\ JustStarted /\ ~Failed_(last'.res))
            => \A v \in last_turn : v < block]_vars

C15_Witness ==
    /\ last.op = "submit_turn" /\ last.res = "TurnWasAlreadySubmittedForThisBlock"
    /\ JustStarted /\ last_turn = {block} /\ block = 1 /\ rounds = 1

\* C17: destroy is accepted exactly if the phase is Finished and the caller
\* is the recorded winner; it then removes the contract, and the funds the
\* contract holds go to the winner.  In Forming and Running it fails with
\* OnlyFinishedGamesCanBeDestroyed, in Finished with another caller it fails
\* with OnlyWinnerIsAllowedToDestroyTheContract, and nothing changes.  Only
\* destroy removes the contract, and no message is accepted once it is
\* removed.
C17_OnlyWinnerDestroys ==
    [][/\ last'.op = "destroy"
            => IF state.tag = "Finished" /\ last'.caller = state.winner
               THEN last'.res = "Ok" /\ terminated' /\ balance' = 0
               ELSE /\ last'.res = IF state.tag # "Finished"
                                   THEN "OnlyFinishedGamesCanBeDestroyed"
                                   ELSE "OnlyWinnerIsAllowedToDestroyTheContract"
                    /\ StorageUnchanged
                    /\ UNCHANGED <<balance, terminated>>
       /\ terminated' => last'.op = "destroy" /\ last'.res = "Ok"
       /\ ~terminated]_vars

C17_Witness ==
    /\ terminated /\ last.op = "destroy" /\ last.res = "Ok"
    /\ state = Finished(2) /\ last.caller = 2 /\ buy_in = 1

\* C18 (as stated): a registration with a name shorter than 3 or longer than
\* 16 fails with InvalidLengthForName and leaves the registry as it is, and
\* every name in the registry has a length within 3..16.
C18_BadNameAlwaysReported ==
    /\ \A id \in Accounts, name \in Names, value \in Values :
           LET r == register_player(Storage, id, name, value)
           IN  Len(name) \notin 3..16
                 => /\ r.res = "InvalidLengthForName"
                    /\ ink_message(Storage, r).players = players
    /\ \A i \in 1..Len(players) : Len(players[i].name) \in 3..16

\* C18 (amended): a registration with a name shorter than 3 or longer than
\* 16 fails and leaves the registry as it is: with InvalidLengthForName while
\* the phase is Forming, with PlayersCanOnlyBeRegisteredInTheFormingPhase in
\* the other phases.  Every name in the registry has a length within 3..16.
C18_BadNameRejected ==
    /\ \A id \in Accounts, name \in Names, value \in Values :
           LET r == register_player(Storage, id, name, value)
           IN  Len(name) \notin 3..16
                 => /\ r.res = IF state.tag = "Forming"
                               THEN "InvalidLengthForName"
                               ELSE "PlayersCanOnlyBeRegisteredInTheFormingPhase"
                    /\ ink_message(Storage, r).players = players
    /\ \A i \in 1..Len(players) : Len(players[i].name) \in 3..16

C18_Witness ==
    /\ last.op = "register_player" /\ last.res = "InvalidLengthForName"
    /\ state.tag = "Forming" /\ Len(players) = 1 /\ players[1].name = "bob"

\* the blocks left up to MaxBlock suffice for the rounds still to be played
EnoughBlocks ==
    \A v \in last_turn : v + (rounds - state.rounds_played) <= MaxBlock

\* C19: rounds_played changes only by an accepted submit_turn, by one, and
\* never exceeds rounds.  If the blocks go on and submit_turn goes on being
\* triggered, a running game gets to rounds_played = rounds whatever the
\* players return.  From then on submit_turn is rejected and end_game, if the
\* transfer goes through, is accepted and sets the phase to Finished.
C19_GameCannotBeStalled ==
    /\ [](state.tag = "Running" => state.rounds_played <= rounds)
    /\ [][(state.tag = "Running" /\ state'.tag = "Running" /\ state' # state)
             => /\ state'.rounds_played = state.rounds_played + 1
                /\ last'.op = "submit_turn" /\ last'.res = "Ok"]_vars
    /\ []((state = Running(rounds) /\ stack = <<>>)
             => /\ submit_turn_begin(Storage).res = "GameCannotBeEndedOrHasAlreadyEnded"
                /\ \A caller \in Accounts :
                       LET r == end_game(Storage, caller, TRUE)
                       IN  r.res = "Ok" /\ r.s.state.tag = "Finished")
    /\ (state.tag = "Running" /\ EnoughBlocks) ~> (state = Running(rounds))

C19_Witness ==
    /\ state = Running(rounds) /\ rounds = 4 /\ stack = <<>>
    /\ last.op = "submit_turn" /\ last.res = "Ok"
    /\ invoked # NoInvocation /\ invoked.outcome.kind = "BrokenPlayer"

\* C20: on the 2x2 board with one player, buy_in 0, forming_rounds 0 and
\* rounds 4, when the player has answered each of the 4 rounds with another
\* field of the board, the board holds 4 entries, all owned by the player,
\* with claimed_at 0, 1, 2 and 3, and the score of the player is 10.  The
\* rounds take 4 blocks after the block of the start.
C20_FourRoundsFourClaims ==
    (state = Running(4) /\ stack = <<>>)
        => /\ Len(players) = 1
           /\ Cardinality(DOMAIN board) = 4
           /\ \A k \in DOMAIN board : board[k].owner = players[1].id
           /\ {board[k].claimed_at : k \in DOMAIN board} = {0, 1, 2, 3}
           /\ players[1].score = 1 + 2 + 3 + 4
           /\ block >= 4

C20_Witness ==
    /\ state = Running(4) /\ stack = <<>> /\ block = 4
    /\ last.op = "submit_turn" /\ last.res = "Ok"
    /\ Cardinality(DOMAIN board) = 4 /\ players[1].score = 10
    /\ board[0].claimed_at = 3 /\ board[3].claimed_at = 0

\* the gas a player of a game of n players may use in the whole game
GameBudget(n) == (IF n = 0 THEN 0 ELSE (GAS_LIMIT_ALL_PLAYERS * (IF n > 30 THEN 2 ELSE 1)) \div n)
                     * (rounds \div 4)

\* the round of the outermost submit_turn in progress ends with this step
RoundEnds == Len(stack) = 1 /\ stack' = <<>>

C22_SnapshotIsCurrent ==
    [][PlayerReturnsStep
          => LET f == stack[Len(stack)]
                 p == f.players[f.idx + 1]
                 info == invoked'.game_info
             IN  /\ info.rounds_played = state.rounds_played
                 /\ info.gas_left = GameBudget(Len(players)) - p.gas_used
                 /\ info.player_scores =
                        [k \in 1..Len(f.players) |->
                            <<f.players[k].name, f.players[k].score>>]]_vars

\* C22 (amended): the information passed to a called player holds the index
\* of the round being played, the budget of the game minus the gas_used of
\* that player, and name and score of every player in the order of the
\* registry, with the scores as they were when the round began: a score
\* gained by a player called earlier in the same round is not in it.
C22_SnapshotOfRoundStart ==
    [][PlayerReturnsStep
          => LET f == stack[Len(stack)]
                 p == f.players[f.idx + 1]
                 info == invoked'.game_info
             IN  /\ info.rounds_played = state.rounds_played
                 /\ info.gas_left = GameBudget(Len(players)) - p.gas_used
                 /\ info.player_scores =
                        [k \in 1..Len(players) |->
                            <<players[k].name, players[k].score>>]
                 /\ \A k \in 1..Len(players) :
                        /\ f.players[k].name = players[k].name
                        /\ f.players[k].score > players[k].score => k < f.idx + 1]_vars

C22_Witness ==
    /\ invoked # NoInvocation /\ Len(players) = 2
    /\ invoked.player = players[2].id
    /\ invoked.game_info.rounds_played = 0
    /\ invoked.game_info.player_scores = <<<<players[1].name, 0>>, <<players[2].name, 0>>>>
    /\ players[1].score = 1

\* ids and names of a vector of players, in its order
Registered(ps) == [k \in 1..Len(ps) |-> <<ps[k].id, ps[k].name>>]

\* C23: as long as the contract exists, the ids and names of the registry
\* change only by a register_player accepted in the phase Forming, which
\* adds one player and keeps the others, and by an accepted reset_game,
\* which removes all.  start_game, submit_turn and end_game leave them as
\* they are, also in the players that a submit_turn in progress holds.  In
\* the phases Running and Finished every register_player fails with
\* PlayersCanOnlyBeRegisteredInTheFormingPhase.
C23_RegistryChangesOnlyInForming ==
    [][/\ (Registered(players') # Registered(players) /\ ~terminated')
            => \/ /\ last'.op = "register_player" /\ last'.res = "Ok"
                  /\ state.tag = "Forming"
                  /\ Len(players') = Len(players) + 1
                  /\ \A k \in 1..Len(players) :
                         \E m \in 1..Len(players') : players'[m] = players[k]
               \/ /\ last'.op = "reset_game" /\ last'.res = "Ok"
                  /\ players' = <<>>
       /\ last'.op \in {"start_game", "submit_turn", "end_game"}
            => /\ Registered(players') = Registered(players)
               /\ Registered(PlayersNow') = Registered(players)
       /\ state.tag \in {"Running", "Finished"}
            => \A id \in Accounts, name \in Names, value \in Values :
                   register_player(Storage, id, name, value).res
                       = "PlayersCanOnlyBeRegisteredInTheFormingPhase"]_vars

C23_Witness ==
    /\ last.op = "register_player"
    /\ last.res = "PlayersCanOnlyBeRegisteredInTheFormingPhase"
    /\ state = Running(1) /\ Len(players) = 2
    /\ players[1].score = 1 /\ players[2].gas_used > 0

\* C24: the events of an accepted submit_turn are one TurnTaken for each
\* player of the batch of the round, in the order of the registry, none for
\* the other players, and then one RoundIncremented with the new
\* rounds_played.  The calls of a round go up the registry: no player is
\* called twice in a round.
C24_EventsOfARound ==
    [][LET n == Len(players)
           nb == IF n <= 30 THEN 1 ELSE 2
           r == state.rounds_played
           batch == {j \in 0..(n - 1) : j % nb = r % nb}
       IN  /\ RoundEnds
                => /\ Len(events') = Cardinality(batch) + 1
                   /\ \A m \in 1..Cardinality(batch) :
                          /\ events'[m].event = "TurnTaken"
                          /\ events'[m].player = players[(m - 1) * nb + (r % nb) + 1].id
                   /\ events'[Len(events')] = [event |-> "RoundIncremented",
                                               rounds_played |-> r + 1]
           /\ (PlayerReturnsStep /\ Len(stack') = Len(stack))
                => stack'[Len(stack')].idx > stack[Len(stack)].idx
           /\ PlayerReturnsStep
                => /\ stack[Len(stack)].idx \in batch
                   /\ TurnsTakenBy(events, invoked'.player) = {}
                   /\ Cardinality(TurnsTakenBy(events', invoked'.player)) = 1]_vars

C24_Witness ==
    /\ Len(players) = 31 /\ state = Running(2)
    /\ last.op = "submit_turn" /\ last.res = "Ok"
    /\ Len(events) = 15 + 1
    /\ events[1].player = 2 /\ events[15].player = 30
    /\ events[16] = RoundIncremented(2)

\* the sum of claimed_at + 1 over the entries at `keys` that `owner` owns
RECURSIVE PaintedScore(_, _, _)
PaintedScore(bd, keys, owner) ==
    IF keys = {} THEN 0
    ELSE LET k == CHOOSE v \in keys : TRUE
         IN  (IF bd[k].owner = owner THEN bd[k].claimed_at + 1 ELSE 0)
                 + PaintedScore(bd, keys \ {k}, owner)

C26_WinnerIsRegistered ==
    (state.tag = "Finished" /\ ~terminated)
        => /\ HasId(state.winner)
           /\ destroy(Storage, state.winner).res = "Ok"
           /\ \A caller \in Accounts :
                  destroy(Storage, caller).res # "TheWinnerIsNotAPlayer"

C26_Witness ==
    /\ state.tag = "Finished" /\ ~terminated
    /\ last.op = "end_game" /\ last.res = "Ok"
    /\ Len(players) = 2 /\ state.winner = players[2].id
    /\ players[2].score > players[1].score

\* C27: while a player is being called by submit_turn, every register_player,
\* start_game, end_game, reset_game and destroy it issues fails and changes
\* nothing.  What the reading messages are answered from does not change
\* before submit_turn returns, but for the board: state still gives
\* rounds_played as the index of the round in progress, and the players are
\* stored with the scores and the gas_used they had when the round began,
\* while field gives the entries painted so far.
C27_ReentrantCallsOnlyRead ==
    /\ [][(last'.nested /\ last'.op \in {"register_player", "start_game", "end_game",
                                         "reset_game", "destroy"})
             => /\ Failed_(last'.res)
                /\ UNCHANGED <<state, board, players, last_turn, balance,
                               terminated, stack, config>>]_vars
    /\ [][(stack # <<>> /\ stack' # <<>>)
             => /\ state_(Storage') = state_(Storage)
                /\ players_(Storage') = players_(Storage)]_vars
    /\ [](stack # <<>>
             => LET f == stack[1]
                IN  /\ state_(Storage) = Running(f.current_round)
                    /\ f.game_info.player_scores =
                           [k \in 1..Len(players) |->
                               <<players_(Storage)[k].name, players_(Storage)[k].score>>]
                    /\ \A k \in 1..Len(players) :
                           players_(Storage)[k].gas_used <= f.players[k].gas_used
                    /\ \A g \in Fields :
                           field(Storage, g) = {board[i] : i \in idx(g) \cap DOMAIN board})

C27_Witness ==
    /\ stack # <<>> /\ last.nested
    /\ last.op = "end_game" /\ last.res = "GameCantBeEndedOrHasAlreadyEnded"
    /\ stack[1].players[1].score = 1 /\ players_(Storage)[1].score = 0
    /\ field(Storage, [x |-> 0, y |-> 1]) = {FieldEntry(players[1].id, 0)}
    /\ state_(Storage) = Running(0)

\* C28: in a game of fewer than 4 rounds the budget of every player is 0:
\* no player is ever called, the board stays empty and score and gas_used of
\* all players stay 0, and an accepted submit_turn emits TurnTaken with
\* BudgetExhausted for every player, in the order of the registry.
C28_ShortGameCallsNobody ==
    /\ [](rounds < 4
            => /\ \A n \in 0..PLAYER_LIMIT :
                      calc_gas_budget(calc_gas_limit(n), rounds) = 0
               /\ stack = <<>> /\ invoked = NoInvocation
               /\ DOMAIN board = {}
               /\ \A j \in 1..Len(players) :
                      players[j].score = 0 /\ players[j].gas_used = 0)
    /\ [][(rounds < 4 /\ SubmitTurnStep /\ ~Failed_(last'.res))
             => /\ last'.res = "Ok"
                /\ state' = Running(state.rounds_played + 1)
                /\ Len(events') = Len(players) + 1
                /\ \A j \in 1..Len(players) :
                       events'[j] = [event |-> "TurnTaken", player |-> players[j].id,
                                     outcome |-> [kind |-> "BudgetExhausted"]]]_vars

C28_Witness ==
    /\ rounds = 1 /\ state = Running(1) /\ Len(players) = 2
    /\ last.op = "submit_turn" /\ last.res = "Ok"
    /\ events = <<TurnTaken(1, BudgetExhausted), TurnTaken(2, BudgetExhausted),
                  RoundIncremented(1)>>

\* C29: in the phases Forming and Running the balance held by the game is
\* buy_in times the number of registered players; an accepted registration
\* adds exactly buy_in and a rejected one adds nothing; an accepted end_game
\* pays out exactly buy_in times the number of players, which is never more
\* than what is held, and a finished game holds nothing any more.
C29_StakeIsBuyInPerPlayer ==
    /\ [](~terminated
            => /\ state.tag \in {"Forming", "Running"}
                    => balance = buy_in * Len(players)
               /\ state.tag = "Finished" => balance = 0)
    /\ [][last'.op = "register_player"
             => IF last'.res = "Ok"
                THEN balance' = balance + buy_in /\ Len(players') = Len(players) + 1
                ELSE UNCHANGED <<balance, players>>]_vars
    /\ [][(last'.op = "end_game" /\ last'.res = "Ok")
             => /\ balance - balance' = buy_in * Len(players)
                /\ buy_in * Len(players) <= balance
                /\ state.tag # "Finished" => balance' = 0]_vars

C29_Witness ==
    /\ buy_in = 1 /\ Len(players) = 2 /\ state.tag = "Finished" /\ balance = 0
    /\ last.op = "end_game" /\ last.res = "Ok" /\ last_turn = {4}

TypeOK == block \in 0..MaxBlock

====
